---- MODULE Spec2Model ----
(***************************************************************************)
(* Spellcaster's reactive signal engine: signal, computed, effect,         *)
(* takeValues, with the dependency tracker (scopes), the transaction       *)
(* publisher and the microtask throttle they are built from.               *)
(*                                                                         *)
(* A step of the model is one synchronous run of JavaScript: a user call   *)
(* (a signal's setter, a constructor, dispose) or the microtask at the     *)
(* head of the microtask queue, run to completion.                         *)
(***************************************************************************)
EXTENDS Integers, Sequences, FiniteSets, TLC

\* ------------------------------------------------------------------ bounds

\* Signals a and b hold 0..MaxVal.
MaxVal == 2
\* Total number of setter calls made by user code.
MaxWrites == 3
\* Number of times user code calls an effect's dispose function.
MaxDispose == 2
\* Total number of direct calls user code makes to a bare throttled function
\* or a bare transaction publisher.
MaxCalls == 4
\* Depth of the scope stack in the program that calls withTracking directly.
MaxDepth == 3
\* User sends to a store.
MaxSends == 3
\* Middlewares passed to one middleware(...) call.
MaxDrivers == 3
\* Parameters a function value declares.
MaxParams == 2

\* ------------------------------------------------------------------ names

\* getTracked() outside any tracked scope; an effect's cleanup when perform
\* returned nothing.
Undefined == "undefined"
Null == "null"

Signals == {"a", "b", "flag", "up", "store"}
Computeds == {"cb", "cc", "d", "sum", "sel", "tv", "view", "c1", "c2"}
Effects == {"e", "ea", "eb", "ec", "ed", "ew"}
Observers == Computeds \cup Effects
Sources == Signals \cup Computeds
\* Bare throttled jobs (each one counts its runs) and a bare publisher.
Jobs == {"inc", "dec", "re", "bad"}
\* The job that throws.
Failing == {"bad"}
Throttled == Observers \cup Jobs
Publishers == Sources \cup {"didChange"}
Callbacks == {"onChange", "again"}
Listeners == Throttled \cup Callbacks

\* The values user code writes to each signal.
UpVals == {Null, Undefined, "x", "y"}
Dom(s) ==
  CASE s = "flag" -> BOOLEAN
    [] s = "up" -> UpVals
    [] OTHER -> 0..MaxVal

Range(seq) == {seq[i] : i \in 1..Len(seq)}

VARIABLES
  state,        \* [Sources -> value]: `state` of each signal and computed
  transaction,  \* [Sources -> Seq(Observers)]: the pending Set of each didChange, in insertion order
  isScheduled,  \* [Observers -> BOOLEAN]: the flag of each observer's throttle
  queue,        \* the microtask queue: observers whose throttled perform is queued
  scopes,       \* the dependency tracker's stack
  created,      \* the computeds and effects constructed so far
  isRunning,    \* [Effects -> BOOLEAN]
  cleanup,      \* [Effects -> 0..]: 0 = not a function, k = the function returned by execution k
  tvState,      \* takeValues: `state` of the closure
  isComplete,   \* takeValues: `isComplete` of the closure
  thrown,       \* the error the last user call threw, or Undefined
  runCount,     \* history: [Observers -> Nat] executions of compute / perform
  lastReads,    \* history: [Observers -> SUBSET Sources] sources read by the last execution
  log,          \* history: effect events <<kind, effect, k>>
  tracked,      \* history: [Observers -> what getTracked() returned inside the last execution]
  everRead,     \* history: [Observers -> SUBSET Sources] sources read by any execution
  notified,     \* history: [listener -> Nat] times a transact() invoked the listener
  seen,         \* the value of a that the callback onChange read last
  nWrites,      \* history: setter calls so far
  nDispose,     \* history: dispose calls so far
  lastOp,       \* history: the step just taken
  endedAt,      \* history: the value tv held when up was first set to null or undefined
  calls,        \* history: [Jobs -> Nat] calls of the throttled function since its job last ran
  lastCalls,    \* history: [Jobs -> Nat] calls that preceded the last run of the job
  rounds,       \* history: [Jobs -> Nat] calls made while no earlier call was waiting for the job
  adds,         \* history: [Jobs -> Nat] withTransaction(job) calls since the last transact()
  lastAdds,     \* history: adds, as the last transact() found it
  due,          \* history: [Jobs -> Nat] transact() calls made with adds[job] > 0
  nCalls,       \* history: direct calls so far
  frames,       \* the withTracking calls whose body is executing: <<[onChange, saved scopes]>>
  returned,     \* what the last withTracking call returned
  bodyResult,   \* history: what the body of that call returned
  lastSaved,    \* history: the scope stack before the call that last returned or was unwound
  sent,         \* history: the messages the store's send has applied, in order
  prevState,    \* history: the store's state before the last send
  nSends,       \* history: user sends so far
  inflight,     \* fxware: the started effects that have not produced their message yet
  expected,     \* history: per message, the effects generateFx asked for so far
  delivered,    \* history: per message, the effects whose message has been sent
  lastEvents,   \* history: what the last call of sendWithFx did, in order
  drivers,      \* the list given to middleware(...)
  received,     \* the message the undecorated send received last
  handled,      \* history: the drivers in the order they handled the last message
  given,         \* the value user code passes to isSignal and sample
  isSig,        \* what isSignal(given) returned last
  sampled,      \* what sample(given) returned last
  batch         \* history: what happened since the last write made with an empty queue

vars == <<state, transaction, isScheduled, queue, scopes, created, isRunning,
          cleanup, tvState, isComplete, thrown, runCount, lastReads, log,
          tracked, everRead, notified, seen,
          nWrites, nDispose, lastOp, endedAt, batch,
          calls, lastCalls, rounds, adds, lastAdds, due, nCalls,
          frames, returned, bodyResult, lastSaved,
          sent, prevState, nSends, inflight, expected, delivered, lastEvents,
          drivers, received, handled, given, isSig, sampled>>

\* The program that calls withTracking directly.
trackVars == <<frames, returned, bodyResult, lastSaved>>

\* The store, its fxware and the middleware composition.
fxVars == <<inflight, expected, delivered, lastEvents>>
mwVars == <<drivers, received, handled>>
storeVars == <<sent, prevState, nSends, fxVars, mwVars>>

\* isSignal and sample.
sampleVars == <<given, isSig, sampled>>

\* History of the direct calls, other than calls.
primVars == <<lastCalls, rounds, adds, lastAdds, due, nCalls>>

\* The mutable heap the engine's functions work on, as one record.
Heap ==
  [state |-> state, transaction |-> transaction, isScheduled |-> isScheduled,
   queue |-> queue, scopes |-> scopes, created |-> created,
   isRunning |-> isRunning, cleanup |-> cleanup, tvState |-> tvState,
   isComplete |-> isComplete, thrown |-> thrown, runCount |-> runCount,
   lastReads |-> lastReads, log |-> log, tracked |-> tracked,
   everRead |-> everRead, notified |-> notified, seen |-> seen]

Install(h) ==
  /\ state' = h.state
  /\ transaction' = h.transaction
  /\ isScheduled' = h.isScheduled
  /\ queue' = h.queue
  /\ scopes' = h.scopes
  /\ created' = h.created
  /\ isRunning' = h.isRunning
  /\ cleanup' = h.cleanup
  /\ tvState' = h.tvState
  /\ isComplete' = h.isComplete
  /\ thrown' = h.thrown
  /\ runCount' = h.runCount
  /\ lastReads' = h.lastReads
  /\ log' = h.log
  /\ tracked' = h.tracked
  /\ everRead' = h.everRead
  /\ notified' = h.notified
  /\ seen' = h.seen

\* ------------------------------------------------------------------ dependencyTracker

getTracked(h) ==
  IF h.scopes = <<>> THEN Undefined ELSE h.scopes[Len(h.scopes)]

push(h, onChange) == [h EXCEPT !.scopes = Append(@, onChange)]

pop(h) == [h EXCEPT !.scopes = SubSeq(@, 1, Len(@) - 1)]

\* ------------------------------------------------------------------ throttled

scheduleFirst(h, o) ==
  IF ~h.isScheduled[o]
    THEN [h EXCEPT !.isScheduled[o] = TRUE, !.queue = <<o>> \o @]
    ELSE h

scheduleAlways(h, o) ==
  [h EXCEPT !.isScheduled[o] = TRUE, !.queue = Append(@, o)]

\* schedule(): queue perform unless it is queued already.
schedule(h, o) ==
  IF ~h.isScheduled[o]
    THEN [h EXCEPT !.isScheduled[o] = TRUE, !.queue = Append(@, o)]
    ELSE h

\* ------------------------------------------------------------------ transaction

\* withTransaction(listener): add to the Set, once; undefined is not added.
withTransactionNoDedupe(h, src, listener) ==
  IF listener # Undefined
    THEN [h EXCEPT !.transaction[src] = Append(@, listener)]
    ELSE h

withTransaction(h, src, listener) ==
  IF listener # Undefined /\ listener \notin Range(h.transaction[src])
    THEN [h EXCEPT !.transaction[src] = Append(@, listener)]
    ELSE h

\* A listener that is not the schedule function of a throttle: onChange reads
\* the signal a; again adds itself and the throttled job dec to didChange.
callback(h, listener) ==
  IF listener = "onChange" THEN [h EXCEPT !.seen = h.state["a"]]
  ELSE withTransaction(withTransaction(h, "didChange", "again"), "didChange", "dec")

\* for (const listener of listeners) listener(): a listener is the schedule
\* function of an observer's throttle, or a callback.
RECURSIVE notify(_, _)
notify(h, listeners) ==
  IF listeners = <<>> THEN h
  ELSE LET h1 == [h EXCEPT !.notified[Head(listeners)] = @ + 1]
       IN notify(IF Head(listeners) \in Callbacks
                   THEN callback(h1, Head(listeners))
                   ELSE schedule(h1, Head(listeners)),
                 Tail(listeners))

transactKeep(h, src) == notify(h, h.transaction[src])

transactNoSwap(h, src) ==
  [notify(h, h.transaction[src]) EXCEPT !.transaction[src] = <<>>]

\* transact(): swap the Set for an empty one, then call the captured listeners.
transact(h, src) ==
  notify([h EXCEPT !.transaction[src] = <<>>], h.transaction[src])

\* ------------------------------------------------------------------ signal

readAny(h, src) ==
  withTransaction(withTransaction(h, src, getTracked(h)), "a", getTracked(h))

\* read(): register the tracked scope, return state.
read(h, src) == withTransaction(h, src, getTracked(h))

RECURSIVE readAll(_, _)
readAll(h, srcs) ==
  IF srcs = <<>> THEN h ELSE readAll(read(h, Head(srcs)), Tail(srcs))

setNotifyFirst(h, s, value) ==
  IF h.state[s] # value
    THEN [transact(h, s) EXCEPT !.state[s] = value]
    ELSE h

setAlways(h, s, value) == transact([h EXCEPT !.state[s] = value], s)

\* set(value)
set(h, s, value) ==
  IF h.state[s] # value
    THEN transact([h EXCEPT !.state[s] = value], s)
    ELSE h

\* ------------------------------------------------------------------ store

\* The messages of the store programs.
Msgs == {"inc", "incLater", "incTwiceLater", "incLaterLater"}

\* The store's reducer.
update(s, msg) == IF msg = "inc" THEN s + 1 ELSE s

\* The effects a message asks for, each named by the message it produces.
generateFx(msg) ==
  CASE msg = "incLater" -> <<"inc">>
    [] msg = "incTwiceLater" -> <<"inc", "inc">>
    [] msg = "incLaterLater" -> <<"incLater">>
    [] OTHER -> <<>>

sendInitial(h, msg) == set(read(h, "store"), "store", update(0, msg))

\* send(msg): setState(update(state(), msg))
send(h, msg) == set(read(h, "store"), "store", update(h.state["store"], msg))

sendWithFxFirstOnly(h, msg) ==
  [h |-> send(h, msg),
   events |-> <<<<"send", msg>>>> \o
              [i \in 1..(IF generateFx(msg) = <<>> THEN 0 ELSE 1) |->
                 <<"fork", generateFx(msg)[i]>>]]

\* sendWithFx(msg): send(msg), then fork every effect of generateFx(msg).
sendWithFx(h, msg) ==
  [h |-> send(h, msg),
   events |-> <<<<"send", msg>>>> \o
              [i \in 1..Len(generateFx(msg)) |-> <<"fork", generateFx(msg)[i]>>]]

\* ------------------------------------------------------------------ middleware

Drivers == {"a", "b", "c"}

\* driverA = send => msg => send(`a${msg}`)
driver(d, msg) == <<d>> \o msg

\* A call, with message r.msg, of the function that reduce has built from the
\* first k middlewares: the k-th handles the message and calls the function
\* built from the first k - 1; with k = 0 that is the undecorated send.
RECURSIVE middleware(_, _, _)
middleware(ms, k, r) ==
  IF k = 0 THEN r
  ELSE middleware(ms, k - 1,
                  [msg |-> driver(ms[k], r.msg), handled |-> Append(r.handled, ms[k])])

\* ------------------------------------------------------------------ isSignal, sample

\* A parameter is plain, has a default value, or is a rest parameter, which
\* comes last.
ParamLists ==
  {ps \in UNION {[1..n -> {"plain", "default", "rest"}] : n \in 0..MaxParams} :
     \A i \in 1..Len(ps) : ps[i] = "rest" => i = Len(ps)}

\* A number.
Number(n) == [type |-> "number", params |-> <<>>, ret |-> n]

\* The values passed to isSignal and sample: numbers, and functions with a
\* parameter list, each returning the number ret when called without arguments.
Values ==
  {Number(n) : n \in 0..1} \cup
  [type : {"function"}, params : ParamLists, ret : 0..1]

\* value.length: the parameters before the first one that has a default value
\* or is a rest parameter.
RECURSIVE length(_)
length(ps) ==
  IF ps = <<>> \/ Head(ps) # "plain" THEN 0 ELSE 1 + length(Tail(ps))

\* isSignal(value)
isSignal(v) == v.type = "function" /\ length(v.params) = 0

\* value()
call(v) == Number(v.ret)

\* sample(value)
sample(v) == IF isSignal(v) THEN call(v) ELSE v

\* ------------------------------------------------------------------ user functions

\* The compute and perform functions of the programs checked.
f(a) == IF a >= 2 THEN 1 ELSE 0
g(a) == IF a >= 1 THEN 1 ELSE 0

\* The sources a body reads, in order, when run on heap h.
Reads(o, h) ==
  CASE o = "cb" -> <<"a">>
    [] o = "cc" -> <<"a">>
    [] o = "d" -> <<"cb", "cc">>
    [] o = "sum" -> <<"a", "b">>
    [] o = "sel" -> IF h.state["flag"] THEN <<"flag", "a">> ELSE <<"flag", "b">>
    [] o = "e" -> <<"a", "b">>
    [] o = "ea" -> <<"a">>
    [] o = "eb" -> <<"b">>
    [] o = "ec" -> <<"cb">>
    [] o = "view" -> <<"store">>
    [] o = "c1" -> <<"a">>
    [] o = "c2" -> <<"c1">>
    [] o = "ed" -> <<"a", "c2">>
    [] o = "ew" -> <<"a">>

\* What the body returns; the perform of effect e returns a new cleanup
\* function, named by the number of the execution that returned it, and the
\* other effects return none (0).
Value(o, h) ==
  CASE o = "cb" -> f(h.state["a"])
    [] o = "cc" -> g(h.state["a"])
    [] o = "d" -> h.state["cb"] + h.state["cc"]
    [] o = "sum" -> h.state["a"] + h.state["b"]
    [] o = "sel" -> IF h.state["flag"] THEN h.state["a"] ELSE h.state["b"]
    [] o = "e" -> h.runCount["e"] + 1
    [] o \in {"ea", "eb", "ec", "ed", "ew"} -> 0
    [] o = "view" -> h.state["store"]
    [] o = "c1" -> h.state["a"]
    [] o = "c2" -> h.state["c1"]

\* The computeds a body refers to: they exist before it is constructed.
Needs(o) ==
  CASE o = "d" -> {"cb", "cc"}
    [] o = "ec" -> {"cb"}
    [] o = "c2" -> {"c1"}
    [] o = "ed" -> {"c2"}
    [] OTHER -> {}

\* The function takeValues hands to computed.
takeValuesNoFreeze(h) ==
  LET h1 == read(h, "up")
      next == h.state["up"]
  IN IF next # Null /\ next # Undefined
       THEN [h |-> [h1 EXCEPT !.tvState = next], value |-> next,
             reads |-> {"up"}]
       ELSE [h |-> [h1 EXCEPT !.isComplete = TRUE], value |-> h.tvState,
             reads |-> {"up"}]

takeValuesCompute(h) ==
  IF h.isComplete
    THEN [h |-> h, value |-> h.tvState, reads |-> {}]
    ELSE LET h1 == read(h, "up")
             next == h.state["up"]
         IN IF next # Null /\ next # Undefined
              THEN [h |-> [h1 EXCEPT !.tvState = next], value |-> next,
                    reads |-> {"up"}]
              ELSE [h |-> [h1 EXCEPT !.isComplete = TRUE], value |-> h.tvState,
                    reads |-> {"up"}]

\* The signal writes of a body, made after its reads: the perform of effect
\* ew is () => { if (a() === 1) setA(2) }; no other body writes.
Writes(h, o, h0) ==
  IF o = "ew" /\ h0.state["a"] = 1 THEN set(h, "a", 2) ELSE h

\* Running the body of observer o: the reads register the tracked scope.
perform(h, o) ==
  LET r == IF o = "tv" THEN takeValuesCompute(h)
           ELSE [h |-> Writes(readAll(h, Reads(o, h)), o, h), value |-> Value(o, h),
                 reads |-> Range(Reads(o, h))]
      ev == IF o \in Effects THEN <<<<"perform", o, h.runCount[o] + 1>>>> ELSE <<>>
  IN [h |-> [r.h EXCEPT !.runCount[o] = @ + 1, !.lastReads[o] = r.reads,
                        !.everRead[o] = @ \cup r.reads,
                        !.tracked[o] = getTracked(h), !.log = @ \o ev],
      value |-> r.value]

\* withTracking, once perform has returned value: pop, return the value.
withTrackingExit(h, value) == [h |-> pop(h), value |-> value]

\* withTracking(onChange, perform): push, run, pop, return the value.
withTracking(h, onChange, o) ==
  LET r == perform(push(h, onChange), o)
  IN withTrackingExit(r.h, r.value)

\* ------------------------------------------------------------------ computed

recomputeAlwaysNotify(h, c) ==
  LET r == withTracking(h, c, c)
  IN transact([r.h EXCEPT !.state[c] = r.value], c)

recomputeNoStore(h, c) ==
  LET r == withTracking(h, c, c)
  IN IF r.h.state[c] # r.value THEN transact(r.h, c) ELSE r.h

\* The job of computed's throttle.
recompute(h, c) ==
  LET r == withTracking(h, c, c)
  IN IF r.h.state[c] # r.value
       THEN transact([r.h EXCEPT !.state[c] = r.value], c)
       ELSE r.h

computedLazy(h, c) == schedule([h EXCEPT !.created = @ \cup {c}], c)

\* computed(compute): the first run, inside the constructor.
computed(h, c) ==
  LET r == withTracking(h, c, c)
  IN [r.h EXCEPT !.state[c] = r.value, !.created = @ \cup {c}]

\* ------------------------------------------------------------------ effect

callCleanup(h, e) ==
  IF h.cleanup[e] # 0
    THEN [h EXCEPT !.log = Append(@, <<"cleanup", e, h.cleanup[e]>>)]
    ELSE h

performEffectNoCleanup(h, e) ==
  IF ~h.isRunning[e] THEN h
  ELSE LET r == withTracking(h, e, e)
       IN [r.h EXCEPT !.cleanup[e] = r.value]

performEffectNoGuard(h, e) ==
  LET r == withTracking(callCleanup(h, e), e, e)
  IN [r.h EXCEPT !.cleanup[e] = r.value]

\* The job of effect's throttle.
performEffect(h, e) ==
  IF ~h.isRunning[e] THEN h
  ELSE LET r == withTracking(callCleanup(h, e), e, e)
       IN [r.h EXCEPT !.cleanup[e] = r.value]

effectUntracked(h, e) ==
  LET r == perform(h, e)
  IN [r.h EXCEPT !.cleanup[e] = r.value, !.isRunning[e] = TRUE,
                 !.created = @ \cup {e}]

\* effect(perform): the first run, inside the constructor.
effect(h, e) ==
  LET r == withTracking(h, e, e)
  IN [r.h EXCEPT !.cleanup[e] = r.value, !.isRunning[e] = TRUE,
                 !.created = @ \cup {e}]

\* dispose()
dispose(h, e) ==
  LET h1 == [h EXCEPT !.log = Append(@, <<"dispose", e, 0>>)]
  IN [callCleanup(h1, e) EXCEPT !.isRunning[e] = FALSE]

\* ------------------------------------------------------------------ takeValues

takeValuesNoCheck(h) ==
  computed([h EXCEPT !.tvState = h.state["up"], !.isComplete = FALSE], "tv")

\* takeValues(maybeSignal), called outside any tracked scope.
takeValues(h) ==
  LET h0 == read(h, "up")
      initial == h.state["up"]
  IN IF initial = Null \/ initial = Undefined
       THEN [h0 EXCEPT !.thrown = "TypeError"]
       ELSE computed([h0 EXCEPT !.tvState = initial, !.isComplete = FALSE], "tv")

\* ------------------------------------------------------------------ throttled.perform

\* The job of a bare throttle: count++; the job re also calls its own trigger
\* the first time it runs, and the job bad throws.
job(h, j) ==
  LET h1 == [h EXCEPT !.runCount[j] = @ + 1]
  IN IF j = "re" /\ h.runCount[j] = 0 THEN schedule(h1, j)
     ELSE IF j \in Failing THEN [h1 EXCEPT !.thrown = "Error"]
     ELSE h1

\* The microtask user code queues after a write: it reads c1 and c2.
probe(h) == readAll(h, <<"c1", "c2">>)

throttledPerformNoClear(h, o) ==
  IF o \in Jobs THEN job(h, o)
  ELSE IF o \in Effects THEN performEffect(h, o) ELSE recompute(h, o)

throttledPerformClearFirst(h, o) ==
  LET h0 == [h EXCEPT !.isScheduled[o] = FALSE]
  IN IF o \in Jobs THEN job(h0, o)
     ELSE IF o \in Effects THEN performEffect(h0, o) ELSE recompute(h0, o)

\* perform of the throttle: job(), then isScheduled = false; when job throws,
\* the assignment is not reached.
throttledPerform(h, o) ==
  LET h1 == IF o \in Jobs THEN job(h, o)
            ELSE IF o \in Effects THEN performEffect(h, o) ELSE recompute(h, o)
  IN IF h1.thrown # Undefined THEN h1 ELSE [h1 EXCEPT !.isScheduled[o] = FALSE]

\* ------------------------------------------------------------------ steps

NoBatch ==
  [n |-> 0, changed |-> {}, sync |-> TRUE, ran |-> FALSE, outs |-> {},
   runs0 |-> [o \in Observers |-> 0], reads0 |-> [o \in Observers |-> {}],
   live0 |-> {},
   state0 |-> [s \in Sources |-> Undefined]]

Init ==
  /\ state = [s \in Sources |->
               CASE s = "flag" -> FALSE [] s = "up" -> "x"
                 [] s = "tv" -> Undefined [] OTHER -> 0]
  /\ transaction = [s \in Publishers |-> <<>>]
  /\ isScheduled = [o \in Throttled |-> FALSE]
  /\ queue = <<>>
  /\ scopes = <<>>
  /\ created = {}
  /\ isRunning = [e \in Effects |-> FALSE]
  /\ cleanup = [e \in Effects |-> 0]
  /\ tvState = Undefined
  /\ isComplete = FALSE
  /\ thrown = Undefined
  /\ runCount = [o \in Throttled |-> 0]
  /\ lastReads = [o \in Observers |-> {}]
  /\ log = <<>>
  /\ tracked = [o \in Observers |-> Undefined]
  /\ everRead = [o \in Observers |-> {}]
  /\ notified = [o \in Listeners |-> 0]
  /\ seen = Undefined
  /\ nWrites = 0
  /\ nDispose = 0
  /\ lastOp = [op |-> "init", arg |-> Undefined]
  /\ endedAt = Undefined
  /\ batch = NoBatch
  /\ calls = [j \in Jobs |-> 0]
  /\ lastCalls = [j \in Jobs |-> 0]
  /\ rounds = [j \in Jobs |-> 0]
  /\ adds = [j \in Jobs |-> 0]
  /\ lastAdds = [j \in Jobs |-> 0]
  /\ due = [j \in Jobs |-> 0]
  /\ nCalls = 0
  /\ frames = <<>>
  /\ returned = Undefined
  /\ bodyResult = Undefined
  /\ lastSaved = <<>>
  /\ sent = <<>>
  /\ prevState = 0
  /\ nSends = 0
  /\ inflight = [m \in Msgs |-> 0]
  /\ expected = [m \in Msgs |-> 0]
  /\ delivered = [m \in Msgs |-> 0]
  /\ lastEvents = <<>>
  /\ drivers = <<>>
  /\ received = <<>>
  /\ handled = <<>>
  /\ given = Number(0)
  /\ isSig = FALSE
  /\ sampled = Number(0)

\* A synchronous turn of user code: it calls the setter of signal s and, when
\* andProbe, queueMicrotask(probe) right after it.
WriteThen(s, v, andProbe) ==
  /\ nWrites < MaxWrites
  /\ LET h == set([Heap EXCEPT !.thrown = Undefined], s, v)
     IN Install(IF andProbe THEN [h EXCEPT !.queue = Append(@, "probe")] ELSE h)
  /\ nWrites' = nWrites + 1
  /\ nDispose' = nDispose
  /\ lastOp' = [op |-> IF state[s] = v THEN "rewrite" ELSE "write", arg |-> s]
  /\ endedAt' =
       IF /\ s = "up" /\ v \in {Null, Undefined}
          /\ "tv" \in created /\ endedAt = Undefined
         THEN state["tv"] ELSE endedAt
  /\ UNCHANGED <<calls, primVars, trackVars, storeVars, sampleVars>>
  /\ batch' =
       IF state[s] = v THEN batch
       ELSE IF queue = <<>>
         THEN [n |-> 1, changed |-> {s}, sync |-> TRUE, ran |-> FALSE,
               outs |-> {}, runs0 |-> runCount, reads0 |-> lastReads,
               live0 |-> created,
               state0 |-> state]
         ELSE [batch EXCEPT !.n = @ + 1, !.changed = @ \cup {s},
                            !.sync = @ /\ ~batch.ran]

\* User code calls the setter of signal s.
Write(s, v) ==
  /\ s \in Signals
  /\ WriteThen(s, v, FALSE)

\* User code calls the setter of a and, right after it, queueMicrotask(probe).
WriteProbe(v) ==
  /\ "probe" \notin Range(queue)
  /\ WriteThen("a", v, TRUE)

\* The event loop runs the microtask at the head of the queue.
RunMicrotask ==
  /\ queue # <<>>
  /\ LET o == Head(queue)
         h0 == [Heap EXCEPT !.queue = Tail(@), !.thrown = Undefined]
         h == IF o = "probe" THEN probe(h0) ELSE throttledPerform(h0, o)
     IN /\ Install(h)
        /\ lastOp' = [op |-> "microtask", arg |-> o]
        /\ batch' = [batch EXCEPT !.ran = TRUE,
                       !.outs = @ \cup {c \in Computeds : h.state[c] # state[c]}]
  /\ calls' = [j \in Jobs |-> IF j = Head(queue) THEN 0 ELSE calls[j]]
  /\ lastCalls' = [j \in Jobs |-> IF j = Head(queue) THEN calls[j] ELSE lastCalls[j]]
  /\ UNCHANGED <<nWrites, nDispose, endedAt, rounds, adds, lastAdds, due, nCalls,
                 trackVars, storeVars, sampleVars>>

\* User code constructs computed c.
CreateComputed(c) ==
  /\ c \notin created
  /\ Needs(c) \subseteq created
  /\ Install(computed([Heap EXCEPT !.thrown = Undefined], c))
  /\ lastOp' = [op |-> "computed", arg |-> c]
  /\ UNCHANGED <<nWrites, nDispose, endedAt, batch, calls, primVars, trackVars, storeVars, sampleVars>>

\* User code constructs effect e.
CreateEffect(e) ==
  /\ e \notin created
  /\ Needs(e) \subseteq created
  /\ Install(effect([Heap EXCEPT !.thrown = Undefined], e))
  /\ lastOp' = [op |-> "effect", arg |-> e]
  /\ UNCHANGED <<nWrites, nDispose, endedAt, batch, calls, primVars, trackVars, storeVars, sampleVars>>

\* User code constructs, in one synchronous turn, the computed cb and the
\* effects ea, eb and ec.
CreateDisjoint ==
  /\ created \cap {"cb", "ea", "eb", "ec"} = {}
  /\ Install(effect(effect(effect(computed([Heap EXCEPT !.thrown = Undefined],
                                          "cb"), "ea"), "eb"), "ec"))
  /\ lastOp' = [op |-> "effect", arg |-> "ec"]
  /\ UNCHANGED <<nWrites, nDispose, endedAt, batch, calls, primVars, trackVars, storeVars, sampleVars>>

\* User code constructs, in one synchronous turn, the chain c1 = computed(a),
\* c2 = computed(c1) and the effect ed, which reads a and c2.
CreateChain ==
  /\ created \cap {"c1", "c2", "ed"} = {}
  /\ Install(effect(computed(computed([Heap EXCEPT !.thrown = Undefined],
                                      "c1"), "c2"), "ed"))
  /\ lastOp' = [op |-> "effect", arg |-> "ed"]
  /\ UNCHANGED <<nWrites, nDispose, endedAt, batch, calls, primVars, trackVars,
                 storeVars, sampleVars>>

\* User code constructs, in one synchronous turn, sel = computed(() =>
\* flag() ? a() : b()), c1 = computed(a) and c2 = computed(c1).
CreateGraph ==
  /\ created \cap {"sel", "c1", "c2"} = {}
  /\ Install(computed(computed(computed([Heap EXCEPT !.thrown = Undefined],
                                        "sel"), "c1"), "c2"))
  /\ lastOp' = [op |-> "computed", arg |-> "c2"]
  /\ UNCHANGED <<nWrites, nDispose, endedAt, batch, calls, primVars, trackVars,
                 storeVars, sampleVars>>

\* User code calls the dispose function effect(e) returned.
Dispose(e) ==
  /\ e \in created
  /\ nDispose < MaxDispose
  /\ Install(dispose([Heap EXCEPT !.thrown = Undefined], e))
  /\ nDispose' = nDispose + 1
  /\ lastOp' = [op |-> "dispose", arg |-> e]
  /\ UNCHANGED <<nWrites, endedAt, batch, calls, primVars, trackVars, storeVars, sampleVars>>

\* User code calls takeValues(up).
TakeValues ==
  /\ "tv" \notin created
  /\ Install(takeValues([Heap EXCEPT !.thrown = Undefined]))
  /\ lastOp' = [op |-> "takeValues", arg |-> "tv"]
  /\ UNCHANGED <<nWrites, nDispose, endedAt, batch, calls, primVars, trackVars, storeVars, sampleVars>>

\* User code calls the throttled function of job j.
Trigger(j) ==
  /\ nCalls < MaxCalls
  /\ Install(schedule([Heap EXCEPT !.thrown = Undefined], j))
  /\ lastOp' = [op |-> "trigger", arg |-> j]
  /\ calls' = [calls EXCEPT ![j] = @ + 1]
  /\ rounds' = [rounds EXCEPT ![j] = IF calls[j] = 0 THEN @ + 1 ELSE @]
  /\ nCalls' = nCalls + 1
  /\ UNCHANGED <<nWrites, nDispose, endedAt, batch, lastCalls, adds, lastAdds, due,
                 trackVars, storeVars, sampleVars>>

\* User code calls didChange.withTransaction(listener), the listener being the
\* throttled function of job j.
AddListener(j) ==
  /\ nCalls < MaxCalls
  /\ Install(withTransaction([Heap EXCEPT !.thrown = Undefined], "didChange", j))
  /\ lastOp' = [op |-> "withTransaction", arg |-> j]
  /\ adds' = [adds EXCEPT ![j] = @ + 1]
  /\ nCalls' = nCalls + 1
  /\ UNCHANGED <<nWrites, nDispose, endedAt, batch, calls, lastCalls, rounds,
                 lastAdds, due, trackVars, storeVars, sampleVars>>

\* User code calls didChange.withTransaction(again).
AddCallback ==
  /\ nCalls < MaxCalls
  /\ Install(withTransaction([Heap EXCEPT !.thrown = Undefined], "didChange", "again"))
  /\ lastOp' = [op |-> "withTransaction", arg |-> "again"]
  /\ nCalls' = nCalls + 1
  /\ UNCHANGED <<nWrites, nDispose, endedAt, batch, calls, lastCalls, rounds, adds,
                 lastAdds, due, trackVars, storeVars, sampleVars>>

\* User code calls withTracking(onChange, () => a()).
Track ==
  /\ LET h == read(push([Heap EXCEPT !.thrown = Undefined], "onChange"), "a")
     IN Install(withTrackingExit(h, h.state["a"]).h)
  /\ lastOp' = [op |-> "withTracking", arg |-> "onChange"]
  /\ UNCHANGED <<nWrites, nDispose, endedAt, batch, calls, primVars, trackVars,
                 storeVars, sampleVars>>

\* User code, at top level or in the body of a withTracking call, reads src.
Read(src) ==
  /\ src \in Signals \/ src \in created
  /\ Install(read([Heap EXCEPT !.thrown = Undefined], src))
  /\ lastOp' = [op |-> "read", arg |-> src]
  /\ UNCHANGED <<nWrites, nDispose, endedAt, batch, calls, primVars, trackVars,
                 storeVars, sampleVars>>

\* User code calls didChange.transact().
Transact ==
  /\ nCalls < MaxCalls
  /\ Install(transact([Heap EXCEPT !.thrown = Undefined], "didChange"))
  /\ lastOp' = [op |-> "transact", arg |-> "didChange"]
  /\ due' = [j \in Jobs |-> IF adds[j] > 0 THEN due[j] + 1 ELSE due[j]]
  /\ calls' = [j \in Jobs |-> IF adds[j] > 0 THEN calls[j] + 1 ELSE calls[j]]
  /\ rounds' = [j \in Jobs |->
                 IF adds[j] > 0 /\ calls[j] = 0 THEN rounds[j] + 1 ELSE rounds[j]]
  /\ lastAdds' = adds
  /\ adds' = [j \in Jobs |-> 0]
  /\ nCalls' = nCalls + 1
  /\ UNCHANGED <<nWrites, nDispose, endedAt, batch, lastCalls, trackVars, storeVars, sampleVars>>

\* User code calls withTracking(onChange, perform): onChange is pushed and
\* perform starts executing.
Enter(onChange) ==
  /\ Len(scopes) < MaxDepth
  /\ Install(push([Heap EXCEPT !.thrown = Undefined], onChange))
  /\ frames' = Append(frames, [onChange |-> onChange, saved |-> scopes])
  /\ lastOp' = [op |-> "enter", arg |-> onChange]
  /\ UNCHANGED <<nWrites, nDispose, endedAt, batch, calls, primVars, returned,
                 bodyResult, lastSaved, storeVars, sampleVars>>

\* User code calls withTracking(onChange, perform) at top level.
EnterOuter(onChange) ==
  /\ frames = <<>>
  /\ Enter(onChange)

\* The innermost executing perform returns value: its withTracking call pops
\* and returns.
Return(value) ==
  /\ frames # <<>>
  /\ LET r == withTrackingExit([Heap EXCEPT !.thrown = Undefined], value)
     IN /\ Install(r.h)
        /\ returned' = r.value
  /\ bodyResult' = value
  /\ lastSaved' = frames[Len(frames)].saved
  /\ frames' = SubSeq(frames, 1, Len(frames) - 1)
  /\ lastOp' = [op |-> "return", arg |-> frames[Len(frames)].onChange]
  /\ UNCHANGED <<nWrites, nDispose, endedAt, batch, calls, primVars, storeVars, sampleVars>>

\* The innermost executing perform throws; the error leaves every withTracking
\* call above frame k (none of them has a try/finally, so none pops) and is
\* caught by the body of frame k, or by the top-level caller when k = 0.
Throw(k) ==
  /\ frames # <<>>
  /\ k < Len(frames)
  /\ Install([Heap EXCEPT !.thrown = "Error"])
  /\ lastSaved' = frames[k + 1].saved
  /\ frames' = SubSeq(frames, 1, k)
  /\ lastOp' = [op |-> "throw", arg |-> frames[Len(frames)].onChange]
  /\ UNCHANGED <<nWrites, nDispose, endedAt, batch, calls, primVars, returned,
                 bodyResult, storeVars, sampleVars>>

\* User code calls the send function of a store made without middleware.
StoreSend(msg) ==
  /\ nSends < MaxSends
  /\ Install(send([Heap EXCEPT !.thrown = Undefined], msg))
  /\ sent' = Append(sent, msg)
  /\ prevState' = state["store"]
  /\ nSends' = nSends + 1
  /\ lastOp' = [op |-> "send", arg |-> msg]
  /\ UNCHANGED <<nWrites, nDispose, endedAt, batch, calls, primVars, trackVars,
                 fxVars, mwVars, sampleVars>>

\* The effects forked in a list of events, as a count per produced message.
Forked(events) ==
  [m \in Msgs |-> Cardinality({i \in 1..Len(events) : events[i] = <<"fork", m>>})]

\* A call of the send function decorated by fxware.
CallSendWithFx(msg, landed) ==
  LET r == sendWithFx([Heap EXCEPT !.thrown = Undefined], msg)
  IN /\ Install(r.h)
     /\ lastEvents' = r.events
     /\ inflight' = [m \in Msgs |-> inflight[m] - landed[m] + Forked(r.events)[m]]
     /\ expected' = [m \in Msgs |->
                       expected[m] + Cardinality({i \in 1..Len(generateFx(msg)) :
                                                   generateFx(msg)[i] = m})]
     /\ delivered' = [m \in Msgs |-> delivered[m] + landed[m]]
     /\ sent' = Append(sent, msg)
     /\ prevState' = state["store"]
     /\ UNCHANGED <<nWrites, nDispose, endedAt, batch, calls, primVars, trackVars,
                    mwVars, sampleVars>>

\* User code calls the send function of a store made with fxware(generateFx).
FxSend(msg) ==
  /\ nSends < MaxSends
  /\ CallSendWithFx(msg, [m \in Msgs |-> 0])
  /\ nSends' = nSends + 1
  /\ lastOp' = [op |-> "sendWithFx", arg |-> msg]

\* A started effect produces its message: forkFx resumes after the await and
\* calls sendWithFx with it.
FxResolve(msg) ==
  /\ inflight[msg] > 0
  /\ CallSendWithFx(msg, [m \in Msgs |-> IF m = msg THEN 1 ELSE 0])
  /\ nSends' = nSends
  /\ lastOp' = [op |-> "forkFx", arg |-> msg]

\* The lists of middlewares user code may pass to middleware(...).
DriverLists == UNION {[1..n -> Drivers] : n \in 0..MaxDrivers}

\* User code builds driver = middleware(...ms).
Compose(ms) ==
  /\ drivers' = ms
  /\ lastOp' = [op |-> "middleware", arg |-> Undefined]
  /\ UNCHANGED <<state, transaction, isScheduled, queue, scopes, created, isRunning,
                 cleanup, tvState, isComplete, thrown, runCount, lastReads, log,
                 tracked, everRead, notified, seen>>
  /\ UNCHANGED <<nWrites, nDispose, endedAt, batch, calls, primVars, trackVars,
                 sent, prevState, nSends, fxVars, received, handled, sampleVars>>

\* User code calls driver(send)(msg).
SendWithDrivers(msg) ==
  /\ LET r == middleware(drivers, Len(drivers), [msg |-> <<msg>>, handled |-> <<>>])
     IN /\ received' = r.msg
        /\ handled' = r.handled
  /\ lastOp' = [op |-> "sendWithDrivers", arg |-> msg]
  /\ UNCHANGED <<state, transaction, isScheduled, queue, scopes, created, isRunning,
                 cleanup, tvState, isComplete, thrown, runCount, lastReads, log,
                 tracked, everRead, notified, seen>>
  /\ UNCHANGED <<nWrites, nDispose, endedAt, batch, calls, primVars, trackVars,
                 sent, prevState, nSends, fxVars, drivers, sampleVars>>

\* User code takes v as the value it will test or sample.
Pick(v) ==
  /\ given' = v
  /\ lastOp' = [op |-> "value", arg |-> Undefined]
  /\ UNCHANGED <<state, transaction, isScheduled, queue, scopes, created, isRunning,
                 cleanup, tvState, isComplete, thrown, runCount, lastReads, log,
                 tracked, everRead, notified, seen>>
  /\ UNCHANGED <<nWrites, nDispose, endedAt, batch, calls, primVars, trackVars,
                 storeVars, isSig, sampled>>

\* User code calls isSignal(given).
IsSignal ==
  /\ isSig' = isSignal(given)
  /\ lastOp' = [op |-> "isSignal", arg |-> Undefined]
  /\ UNCHANGED <<state, transaction, isScheduled, queue, scopes, created, isRunning,
                 cleanup, tvState, isComplete, thrown, runCount, lastReads, log,
                 tracked, everRead, notified, seen>>
  /\ UNCHANGED <<nWrites, nDispose, endedAt, batch, calls, primVars, trackVars,
                 storeVars, given, sampled>>

\* User code calls sample(given).
Sample ==
  /\ sampled' = sample(given)
  /\ lastOp' = [op |-> "sample", arg |-> Undefined]
  /\ UNCHANGED <<state, transaction, isScheduled, queue, scopes, created, isRunning,
                 cleanup, tvState, isComplete, thrown, runCount, lastReads, log,
                 tracked, everRead, notified, seen>>
  /\ UNCHANGED <<nWrites, nDispose, endedAt, batch, calls, primVars, trackVars,
                 storeVars, given, isSig>>

\* ------------------------------------------------------------------ programs

\* An effect reading a and b, whose perform returns a cleanup function.
Next ==
  \/ \E s \in {"a", "b"} : \E v \in Dom(s) : Write(s, v)
  \/ RunMicrotask
  \/ CreateEffect("e")
  \/ Dispose("e")

Spec == Init /\ [][Next]_vars

\* sum = computed(() => a() + b())
NextSum ==
  \/ \E s \in {"a", "b"} : \E v \in Dom(s) : Write(s, v)
  \/ RunMicrotask
  \/ CreateComputed("sum")

SpecSum == Init /\ [][NextSum]_vars

\* The diamond: cb = f(a), cc = g(a), d = cb + cc.
NextDiamond ==
  \/ \E v \in Dom("a") : Write("a", v)
  \/ RunMicrotask
  \/ \E c \in {"cb", "cc", "d"} : CreateComputed(c)

SpecDiamond == Init /\ [][NextDiamond]_vars

\* sel = computed(() => flag() ? a() : b())
NextSel ==
  \/ \E s \in {"flag", "a", "b"} : \E v \in Dom(s) : Write(s, v)
  \/ RunMicrotask
  \/ CreateComputed("sel")

SpecSel == Init /\ [][NextSel]_vars

\* tv = takeValues(up)
NextTake ==
  \/ \E v \in Dom("up") : Write("up", v)
  \/ RunMicrotask
  \/ TakeValues

SpecTake == Init /\ [][NextTake]_vars

\* inc = throttled(() => count++), dec likewise, didChange = transaction(),
\* all called directly.
NextPrim ==
  \/ \E j \in Jobs \ Failing : Trigger(j)
  \/ \E j \in Jobs \ Failing : AddListener(j)
  \/ Transact
  \/ RunMicrotask

SpecPrim == Init /\ [][NextPrim]_vars

\* Effects over disjoint signals: ea reads a, eb reads b, ec reads the
\* computed cb, which reads a.
NextDisjoint ==
  \/ \E s \in {"a", "b"} : \E v \in Dom(s) : Write(s, v)
  \/ RunMicrotask
  \/ CreateDisjoint

SpecDisjoint == Init /\ [][NextDisjoint]_vars

\* A store without middleware, and view = computed(() => state()).
NextStore ==
  \/ \E msg \in Msgs : StoreSend(msg)
  \/ RunMicrotask
  \/ CreateComputed("view")

SpecStore == Init /\ [][NextStore]_vars

\* A store with middleware: fxware(generateFx).
NextFx ==
  \/ \E msg \in Msgs : FxSend(msg)
  \/ \E msg \in Msgs : FxResolve(msg)

SpecFx == Init /\ [][NextFx]_vars

\* Every started effect produces its message.
SpecFxFair == SpecFx /\ \A msg \in Msgs : WF_vars(FxResolve(msg))

\* middleware(...) applied to a plain send function.
NextMiddleware ==
  \/ \E ms \in DriverLists : Compose(ms)
  \/ \E msg \in {"123", "456"} : SendWithDrivers(msg)

SpecMiddleware == Init /\ [][NextMiddleware]_vars

\* isSignal and sample applied to plain values and to functions.
NextSample ==
  \/ \E v \in Values : Pick(v)
  \/ IsSignal
  \/ Sample

SpecSample == Init /\ [][NextSample]_vars

\* A throttled job that, the first time it runs, calls its own trigger.
NextReentrant ==
  \/ \E j \in {"re", "inc"} : Trigger(j)
  \/ RunMicrotask

SpecReentrant == Init /\ [][NextReentrant]_vars

\* A chain of computeds and an effect that reads a both directly and through
\* the chain; every write is followed by queueMicrotask(probe).
NextChain ==
  \/ \E v \in Dom("a") : WriteProbe(v)
  \/ RunMicrotask
  \/ CreateChain

SpecChain == Init /\ [][NextChain]_vars

\* A signal whose pending set holds a callback and the observer of an effect.
NextWrite ==
  \/ \E v \in Dom("a") : Write("a", v)
  \/ RunMicrotask
  \/ CreateEffect("ea")
  \/ Track

SpecWrite == Init /\ [][NextWrite]_vars

\* A publisher with a listener that adds listeners while it is being invoked.
NextFlush ==
  \/ AddListener("inc")
  \/ AddCallback
  \/ Transact
  \/ RunMicrotask

SpecFlush == Init /\ [][NextFlush]_vars

\* Reads of a signal and of a computed, outside and inside the body of one
\* withTracking call.
NextRead ==
  \/ \E v \in Dom("a") : Write("a", v)
  \/ RunMicrotask
  \/ CreateComputed("sum")
  \/ EnterOuter("onChange")
  \/ Return(TRUE)
  \/ \E src \in {"a", "sum"} : Read(src)

SpecRead == Init /\ [][NextRead]_vars

\* A computed with dynamic dependencies next to a chain of computeds.
NextGraph ==
  \/ \E s \in {"a", "b", "flag"} : \E v \in Dom(s) : Write(s, v)
  \/ RunMicrotask
  \/ CreateGraph

SpecGraph == Init /\ [][NextGraph]_vars

\* An effect whose body writes the signal it reads.
NextSelfWrite ==
  \/ \E v \in Dom("a") : Write("a", v)
  \/ RunMicrotask
  \/ CreateEffect("ew")

SpecSelfWrite == Init /\ [][NextSelfWrite]_vars

\* A throttled job that throws, next to one that does not.
NextFailing ==
  \/ \E j \in Failing \cup {"inc"} : Trigger(j)
  \/ RunMicrotask

SpecFailing == Init /\ [][NextFailing]_vars

\* The step the event loop takes when the microtask queue is not empty: the
\* microtask at its head is the one that runs.
EventLoop == queue # <<>> /\ lastOp' = [op |-> "microtask", arg |-> Head(queue)]

\* The chain program, with the event loop running every queued microtask.
SpecChainFair == SpecChain /\ WF_lastOp(EventLoop)

\* withTracking called directly, nested, with bodies that return or throw.
NextTracker ==
  \/ \E o \in {"e", "sum"} : Enter(o)
  \/ \E v \in BOOLEAN : Return(v)
  \/ \E k \in 0..(MaxDepth - 1) : Throw(k)

SpecTracker == Init /\ [][NextTracker]_vars

\* ------------------------------------------------------------------ claims

Count(seq, x) == Cardinality({i \in 1..Len(seq) : seq[i] = x})

\* C1: a setter call with the value the signal already holds changes nothing:
\* the value, every pending set, every throttle flag and the microtask queue stay
\* as they were, and no body runs.
C1_IdentitySuppression ==
  [][(lastOp'.op = "rewrite" /\ nWrites' = nWrites + 1)
       => UNCHANGED <<state, transaction, isScheduled, queue, runCount, log>>]_vars

\* A redundant write was made to a signal whose pending set held an observer.
C1_Witness ==
  /\ lastOp.op = "rewrite"
  /\ transaction[lastOp.arg] # <<>>

\* C2: after a single changing write to a made with an empty microtask queue,
\* d's compute never runs twice, and once the queue has drained it has run
\* exactly once if cb or cc changed value (whichever did).
C2_DiamondOnce ==
  (batch.n = 1 /\ "d" \in batch.live0) =>
    /\ runCount["d"] <= batch.runs0["d"] + 1
    /\ (queue = <<>> /\ batch.outs \cap {"cb", "cc"} # {})
         => runCount["d"] = batch.runs0["d"] + 1

\* One write to a changed both cb and cc, and the queue has drained.
C2_Witness ==
  /\ batch.n = 1 /\ "d" \in batch.live0
  /\ {"cb", "cc"} \subseteq batch.outs
  /\ queue = <<>>

\* C3: when a and b are both written with changed values in one synchronous
\* turn that began with an empty microtask queue, the effect that read both has
\* re-run exactly once when the queue has drained.
C3_BatchOnce ==
  (/\ "e" \in batch.live0 /\ isRunning["e"]
   /\ batch.sync /\ {"a", "b"} \subseteq batch.changed) =>
    /\ runCount["e"] <= batch.runs0["e"] + 1
    /\ queue = <<>> => runCount["e"] = batch.runs0["e"] + 1

\* Both signals were changed in one turn and the queue has drained.
C3_Witness ==
  /\ "e" \in batch.live0 /\ isRunning["e"]
  /\ batch.sync /\ {"a", "b"} \subseteq batch.changed
  /\ queue = <<>>

\* C4: within the synchronous turn of the writes sum still holds the value it
\* had before them, which is the sum of the values a and b had then; its
\* recompute is queued exactly once, and once that microtask has run sum is the
\* sum of the current a and b.
C4_StaleThenConsistent ==
  "sum" \in created =>
    /\ ~isScheduled["sum"] => state["sum"] = state["a"] + state["b"]
    /\ isScheduled["sum"] => Count(queue, "sum") = 1
    /\ ("sum" \in batch.live0 /\ batch.n >= 1 /\ ~batch.ran) =>
         /\ state["sum"] = batch.state0["sum"]
         /\ state["sum"] = batch.state0["a"] + batch.state0["b"]

\* a and b were both changed in one turn, and after the turn sum has taken a
\* new value.
C4_Witness ==
  /\ "sum" \in batch.live0 /\ batch.sync /\ batch.ran
  /\ {"a", "b"} \subseteq batch.changed
  /\ queue = <<>>
  /\ state["sum"] # batch.state0["sum"]

\* C5: once the body of sel has re-run without reading a signal (b after flag
\* became true, a after flag became false again), no write to that signal
\* schedules a re-run of sel.
C5_StopsReacting ==
  [][(/\ "sel" \in created /\ ~isScheduled["sel"]
      /\ lastOp'.op = "write" /\ nWrites' = nWrites + 1
      /\ lastOp'.arg \notin lastReads["sel"])
       => ~isScheduled'["sel"]]_vars

\* C6: while the effect is not disposed its executions and cleanups alternate:
\* the cleanup returned by execution k runs once, right before execution k+1,
\* so n executions come with n-1 cleanups.
C6_CleanupBeforeRerun ==
  ("e" \in created /\ nDispose = 0) =>
    /\ Len(log) = 2 * runCount["e"] - 1
    /\ \A i \in 1..Len(log) :
         log[i] = IF i % 2 = 1 THEN <<"perform", "e", (i + 1) \div 2>>
                  ELSE <<"cleanup", "e", i \div 2>>

\* The effect has run three times.
C6_Witness ==
  /\ "e" \in created /\ nDispose = 0
  /\ runCount["e"] >= 3

\* C7: dispose is idempotent: no cleanup function (the one returned by a given
\* execution) is ever invoked twice.
C7_DisposeIdempotent ==
  \A i, j \in 1..Len(log) :
    (i # j /\ log[i][1] = "cleanup") => log[i] # log[j]

\* C8: after the first dispose() perform never runs again, and the only
\* cleanups invoked are the ones dispose() itself invokes: the queued runs of
\* the disposed effect invoke nothing and throw nothing.
C8_DisposedNeverRuns ==
  /\ \A i, j \in 1..Len(log) :
       (i < j /\ log[i][1] = "dispose") =>
         /\ log[j][1] # "perform"
         /\ log[j][1] = "cleanup" => log[j - 1][1] = "dispose"
  /\ (lastOp.op = "microtask" /\ lastOp.arg = "e" /\ ~isRunning["e"])
       => thrown = Undefined

\* A queued run of the disposed effect has just executed.
C8_Witness ==
  /\ lastOp.op = "microtask" /\ lastOp.arg = "e"
  /\ ~isRunning["e"]
  /\ ~isScheduled["e"]

\* C9 as stated: once up has been set to null or undefined, tv keeps the value
\* it held then.
C9_FrozenOnceSet ==
  endedAt # Undefined => state["tv"] = endedAt

\* C9 amended: once a recompute of tv has read null or undefined from up
\* (isComplete), isComplete stays set and tv keeps its value, the last non-null
\* one it read, whatever is written to up afterwards.
C9_FrozenOnceRead ==
  [][(isComplete \/ isComplete')
       => (isComplete' /\ state'["tv"] = state["tv"] /\ state'["tv"] = tvState')]_vars

\* After completion a non-null value was written to up, the recompute it
\* scheduled has run, and tv did not take it.
C9_Witness ==
  /\ isComplete
  /\ lastOp.op = "microtask" /\ lastOp.arg = "tv"
  /\ state["up"] \notin {Null, Undefined}
  /\ state["tv"] # state["up"]

\* C10: takeValues called while up is null or undefined throws a TypeError and
\* constructs nothing: no computed is created, nothing is registered or queued;
\* and as long as tv is not constructed it is never scheduled nor run.
C10_FailsFast ==
  /\ []("tv" \notin created =>
          /\ ~isScheduled["tv"] /\ runCount["tv"] = 0
          /\ \A s \in Sources : "tv" \notin Range(transaction[s]))
  /\ [][(lastOp'.op = "takeValues" /\ state["up"] \in {Null, Undefined})
          => /\ thrown' = "TypeError"
             /\ UNCHANGED <<created, state, transaction, isScheduled, queue,
                            runCount, tvState, isComplete>>]_vars

\* takeValues has just thrown.
C10_Witness ==
  /\ lastOp.op = "takeValues"
  /\ thrown = "TypeError"
  /\ "tv" \notin created

\* C11: right after computed(compute) returns, with no microtask run in
\* between, the computed holds compute's result over the current signal values:
\* sum is a + b, compute ran once and nothing is queued for it.
C11_EagerComputed ==
  (lastOp.op = "computed" /\ lastOp.arg = "sum") =>
    /\ state["sum"] = state["a"] + state["b"]
    /\ runCount["sum"] = 1
    /\ ~isScheduled["sum"]

\* sum was constructed after a and b had been written.
C11_Witness ==
  /\ lastOp.op = "computed" /\ lastOp.arg = "sum"
  /\ state["a"] > 0 /\ state["b"] > 0

\* C12: when effect(perform) returns, perform has run exactly once, inside
\* the constructor; getTracked() was the effect's own observer during the run,
\* and that observer is in the pending set of every signal the run read.
C12_EffectRunsOnce ==
  (lastOp.op = "effect" /\ lastOp.arg = "e") =>
    /\ runCount["e"] = 1
    /\ log = <<<<"perform", "e", 1>>>>
    /\ tracked["e"] = "e"
    /\ lastReads["e"] = {"a", "b"}
    /\ \A s \in lastReads["e"] : "e" \in Range(transaction[s])
    /\ scopes = <<>>

\* The effect has just been constructed, after a write.
C12_Witness ==
  /\ lastOp.op = "effect" /\ lastOp.arg = "e"
  /\ nWrites > 0

\* C13: however many calls of a throttled function are made before its queued
\* job has run, the job is queued exactly once and runs exactly once for them:
\* the runs of the job are the completed rounds of calls.
C13_ThrottleCoalesces ==
  \A j \in Jobs :
    /\ Count(queue, j) = IF calls[j] > 0 THEN 1 ELSE 0
    /\ isScheduled[j] <=> calls[j] > 0
    /\ runCount[j] + (IF calls[j] > 0 THEN 1 ELSE 0) = rounds[j]

\* Three calls were made before the job ran, and it has run once.
C13_Witness ==
  /\ lastOp.op = "microtask" /\ lastOp.arg = "inc"
  /\ lastCalls["inc"] >= 3
  /\ runCount["inc"] = 1

\* C16: a listener is invoked once by each transact() before which it was
\* added, however many times it was added, and by no other transact().
C16_OneShot ==
  \A j \in Jobs : notified[j] = due[j]

\* A listener added twice was invoked once by the transact() that followed.
C16_Witness ==
  /\ lastOp.op = "transact"
  /\ lastAdds["inc"] >= 2
  /\ notified["inc"] = 1

\* C14: the scope stack is the stack of the withTracking calls whose body is
\* executing, so getTracked() is the observer of the innermost one and undefined
\* when there is none; a call that returns normally returns its body's result
\* and leaves the stack as it was before the call.
C14_ScopeDiscipline ==
  /\ Len(scopes) = Len(frames)
  /\ \A i \in 1..Len(frames) : scopes[i] = frames[i].onChange
  /\ getTracked(Heap) =
       IF frames = <<>> THEN Undefined ELSE frames[Len(frames)].onChange
  /\ lastOp.op = "return" => (returned = bodyResult /\ scopes = lastSaved)

\* C15: when the body throws, the error reaches the caller and the scope
\* stack is what it was before the call.
C15_PopsOnThrow ==
  lastOp.op = "throw" => (thrown = "Error" /\ scopes = lastSaved)

\* The signals an observer has ever read, directly or through a computed.
ReadThrough(o) ==
  everRead[o] \cup UNION {everRead[c] : c \in everRead[o] \cap Computeds}

\* C17: the writes of a batch that changed no signal the effect has ever read,
\* directly or through a computed, leave its run count alone; when the writes
\* of one synchronous turn changed a signal the effect read in its last run,
\* the effect is re-run once, when its microtask runs.
C17_Disjoint ==
  \A o \in {"ea", "eb", "ec"} :
    o \in batch.live0 =>
      /\ batch.changed \cap ReadThrough(o) = {} =>
           (runCount[o] = batch.runs0[o] /\ ~isScheduled[o])
      /\ (batch.sync /\ batch.changed \cap batch.reads0[o] # {}) =>
           /\ runCount[o] <= batch.runs0[o] + 1
           /\ isScheduled[o] <=> runCount[o] = batch.runs0[o]
           /\ Count(queue, o) = IF isScheduled[o] THEN 1 ELSE 0

\* a was written while ea, eb and ec were live; ea has re-run and eb and ec,
\* whose computed did not change, have not.
C17_Witness ==
  /\ {"ea", "eb", "ec"} \subseteq batch.live0
  /\ batch.changed = {"a"}
  /\ queue = <<>>
  /\ runCount["ea"] = batch.runs0["ea"] + 1
  /\ runCount["eb"] = batch.runs0["eb"]

\* update folded over a sequence of messages, from state s.
RECURSIVE Fold(_, _)
Fold(s, msgs) ==
  IF msgs = <<>> THEN s ELSE Fold(update(s, Head(msgs)), Tail(msgs))

\* C18: when send(msg) has returned, the store's state is update(the state
\* before the send, msg); after any sequence of sends it is update folded over
\* the sequence from the initial state.
C18_SendSynchronous ==
  /\ state["store"] = Fold(0, sent)
  /\ lastOp.op = "send" => state["store"] = update(prevState, lastOp.arg)

\* The second inc has just been sent and the state shows it, while view has
\* not recomputed yet.
C18_Witness ==
  /\ lastOp.op = "send" /\ lastOp.arg = "inc"
  /\ prevState = 1 /\ state["store"] = 2
  /\ "view" \in created /\ state["view"] = 0

\* C19: the drivers handle a sent message in the order they were listed.
C19_TopToBottom ==
  lastOp.op = "sendWithDrivers" => handled = drivers

\* What a call of the decorated send with msg does, in order.
SendThenFork(msg) ==
  <<<<"send", msg>>>> \o
    [i \in 1..Len(generateFx(msg)) |-> <<"fork", generateFx(msg)[i]>>]

\* Some started effect has not produced its message yet.
InFlight == \E m \in Msgs : inflight[m] > 0

\* C20: every call of the fxware-decorated send, by user code or by an effect
\* delivering its message, first applies the message to the store and then
\* forks every effect of generateFx(msg), in order; every effect asked for is
\* either still in flight or has delivered its message through the decorated
\* send; and whenever effects are in flight, later all of them have delivered.
C20_Feedback ==
  /\ [](lastOp.op \in {"sendWithFx", "forkFx"} =>
          /\ lastEvents = SendThenFork(lastOp.arg)
          /\ state["store"] = update(prevState, lastOp.arg))
  /\ [](\A m \in Msgs : expected[m] = inflight[m] + delivered[m])
  /\ InFlight ~> ~InFlight

\* incLaterLater was sent: its effect delivered incLater, whose own effect
\* delivered inc, and nothing is in flight any more.
C20_Witness ==
  /\ lastOp.op = "forkFx" /\ lastOp.arg = "inc"
  /\ sent[1] = "incLaterLater"
  /\ delivered["incLater"] >= 1 /\ delivered["inc"] >= 1
  /\ \A m \in Msgs : inflight[m] = 0
  /\ state["store"] >= 1

\* C21: isSignal(value) is true exactly when value is a function that
\* declares no parameter; sample(value) is value() in that case and value
\* itself in every other.
C21_ZeroParameters ==
  /\ lastOp.op = "isSignal" =>
       (isSig <=> (given.type = "function" /\ given.params = <<>>))
  /\ lastOp.op = "sample" =>
       sampled = IF given.type = "function" /\ given.params = <<>>
                   THEN call(given) ELSE given

\* C22: the job re called its own trigger while it was executing, so when it
\* has returned one further run of it is queued.
C22_TriggerNotLost ==
  (lastOp.op = "microtask" /\ lastOp.arg = "re" /\ runCount["re"] = 1) =>
    (isScheduled["re"] /\ Count(queue, "re") = 1)

\* C23: after a single write, made when the microtask queue was empty, every
\* computed and every effect of the chain has re-run at most once.
C23_OncePerObserver ==
  \A o \in {"c1", "c2", "ed"} :
    (o \in batch.live0 /\ batch.n = 1) => runCount[o] <= batch.runs0[o] + 1

\* C24: the microtask queued right after a write sees every computed that
\* depends on the written signal, directly or through another computed, up to
\* date.
C24_OneCycle ==
  (lastOp.op = "microtask" /\ lastOp.arg = "probe" /\ {"c1", "c2"} \subseteq created) =>
    (state["c1"] = state["a"] /\ state["c2"] = state["a"])

\* C25: a write that changes a stores the new value and, before it returns,
\* has invoked every observer that was in a's pending set: the callback that
\* reads a from there has seen the new value, every throttled observer is
\* queued once, and no compute or perform body has run inside the write.
C25_WriteOrdering ==
  [][(lastOp'.op = "write" /\ lastOp'.arg = "a") =>
       /\ state'["a"] # state["a"]
       /\ transaction'["a"] = <<>>
       /\ \A l \in Range(transaction["a"]) : notified'[l] = notified[l] + 1
       /\ "onChange" \in Range(transaction["a"]) => seen' = state'["a"]
       /\ \A o \in Range(transaction["a"]) \cap Throttled :
            isScheduled'[o] /\ Count(queue', o) = 1
       /\ runCount' = runCount /\ log' = log]_vars

\* The first write has notified both the callback and the effect's observer.
C25_Witness ==
  /\ lastOp.op = "write" /\ nWrites = 1
  /\ notified["onChange"] = 1 /\ notified["ea"] = 1
  /\ seen = state["a"]
  /\ queue = <<"ea">> /\ runCount["ea"] = 1

\* C26: a listener that adds itself and dec to the publisher while transact()
\* is invoking it is invoked once by that flush, which does not invoke dec, and
\* both are in the new pending set, so that the next transact() invokes them.
C26_ReentrantAdd ==
  [][(lastOp'.op = "transact" /\ "again" \in Range(transaction["didChange"])) =>
       /\ notified'["again"] = notified["again"] + 1
       /\ notified'["dec"] =
            notified["dec"] + (IF "dec" \in Range(transaction["didChange"]) THEN 1 ELSE 0)
       /\ transaction'["didChange"] = <<"again", "dec">>]_vars

\* The second flush has invoked the listeners the first one's callback added.
C26_Witness ==
  /\ lastOp.op = "transact"
  /\ notified["again"] = 2 /\ notified["dec"] = 1
  /\ transaction["didChange"] = <<"again", "dec">>

\* C27: a read of a signal or of a computed changes no value and schedules
\* nothing; it adds the observer of the innermost executing withTracking body
\* to the pending set of what is read, and outside any such body it leaves
\* that pending set unchanged too.
C27_ReadFrame ==
  [][lastOp'.op = "read" =>
       /\ state' = state /\ queue' = queue /\ isScheduled' = isScheduled
       /\ runCount' = runCount /\ notified' = notified
       /\ \A p \in Publishers \ {lastOp'.arg} : transaction'[p] = transaction[p]
       /\ transaction'[lastOp'.arg] =
            IF \/ frames = <<>>
               \/ frames[Len(frames)].onChange \in Range(transaction[lastOp'.arg])
              THEN transaction[lastOp'.arg]
              ELSE Append(transaction[lastOp'.arg], frames[Len(frames)].onChange)]_vars

\* The computed sum was just read inside a withTracking body, while its own
\* recompute was queued.
C27_Witness ==
  /\ lastOp.op = "read" /\ lastOp.arg = "sum"
  /\ frames # <<>>
  /\ transaction["sum"] = <<"onChange">>
  /\ queue = <<"sum">>

\* C28: a recompute whose value equals the cached one keeps it, leaves the
\* computed's pending set alone and notifies nobody; one whose value differs
\* stores it, empties the pending set and notifies every dependent in it.
C28_NotifyOnChange ==
  [][(lastOp'.op = "microtask" /\ lastOp'.arg \in {"cb", "cc", "d"}) =>
       IF Value(lastOp'.arg, Heap) = state[lastOp'.arg]
         THEN /\ state'[lastOp'.arg] = state[lastOp'.arg]
              /\ transaction'[lastOp'.arg] = transaction[lastOp'.arg]
              /\ notified' = notified
              /\ queue' = Tail(queue)
         ELSE /\ state'[lastOp'.arg] = Value(lastOp'.arg, Heap)
              /\ transaction'[lastOp'.arg] = <<>>
              /\ \A l \in Range(transaction[lastOp'.arg]) :
                   notified'[l] = notified[l] + 1 /\ isScheduled'[l]]_vars

\* a was changed, cb has recomputed to the value it had, and d, which is in
\* cb's pending set, is not scheduled.
C28_Witness ==
  /\ lastOp.op = "microtask" /\ lastOp.arg = "cb"
  /\ batch.n = 1 /\ batch.changed = {"a"}
  /\ state["cb"] = batch.state0["cb"]
  /\ "d" \in Range(transaction["cb"])
  /\ ~isScheduled["d"]

\* C29: the complete flag is set by a recompute that reads an absent upstream
\* value and is never cleared; a recompute made once it is set changes
\* nothing and does not read upstream, so the projection is then in no
\* upstream pending set, and from there on no upstream write schedules it.
C29_OneWay ==
  [][/\ isComplete => isComplete'
     /\ (~isComplete /\ isComplete') =>
          (lastOp'.op = "microtask" /\ lastOp'.arg = "tv"
           /\ state["up"] \in {Null, Undefined})
     /\ (~isComplete /\ lastOp'.op = "microtask" /\ lastOp'.arg = "tv"
         /\ state["up"] \in {Null, Undefined}) => isComplete'
     /\ (isComplete /\ lastOp'.op = "microtask" /\ lastOp'.arg = "tv") =>
          /\ state'["tv"] = state["tv"] /\ tvState' = tvState
          /\ transaction' = transaction
          /\ "tv" \notin Range(transaction'["up"])
     /\ (isComplete /\ "tv" \notin Range(transaction["up"]) /\ ~isScheduled["tv"]) =>
          /\ runCount'["tv"] = runCount["tv"]
          /\ ~isScheduled'["tv"]
          /\ "tv" \notin Range(transaction'["up"])]_vars

\* After completion and one further recompute, up was written again and
\* nothing was scheduled.
C29_Witness ==
  /\ isComplete
  /\ lastOp.op = "write" /\ lastOp.arg = "up"
  /\ "tv" \notin Range(transaction["up"])
  /\ queue = <<>>
  /\ runCount["tv"] = 3

\* C30: a write whose pending observers are all unscheduled queues them in
\* the order they were added to the pending set, and the queue is run from
\* its head, so they recompute in that order.
C30_InsertionOrder ==
  [][/\ (/\ lastOp'.op = "write"
         /\ \A o \in Range(transaction[lastOp'.arg]) : ~isScheduled[o]) =>
          queue' = queue \o transaction[lastOp'.arg]
     /\ lastOp'.op = "microtask" =>
          /\ lastOp'.arg = Head(queue)
          /\ SubSeq(queue', 1, Len(queue) - 1) = Tail(queue)]_vars

\* a was written with cb added to its pending set before ea; cb has
\* recomputed and ea is next.
C30_Witness ==
  /\ lastOp.op = "microtask" /\ lastOp.arg = "cb"
  /\ batch.n = 1 /\ batch.changed = {"a"}
  /\ queue # <<>> /\ Head(queue) = "ea"

\* C31: whenever the microtask queue is empty, the cached value of every
\* computed is its compute function over the current values of what it reads.
C31_QuiescentConsistency ==
  queue = <<>> =>
    \A c \in (created \cap Computeds) \ {"tv"} : state[c] = Value(c, Heap)

\* All three signals were written, the last write changed a while sel was
\* reading it, and the queue has drained.
C31_Witness ==
  /\ queue = <<>>
  /\ lastOp.op = "microtask"
  /\ {"sel", "c1", "c2"} \subseteq batch.live0
  /\ "a" \in batch.changed
  /\ state["flag"] /\ state["a"] > 0
  /\ state["c2"] = state["a"] /\ state["sel"] = state["a"]

\* C32: between synchronous runs, every computed and every effect that has
\* not been disposed is, for each source it read in its last execution, in
\* that source's pending set or scheduled to re-run.
C32_NoLostSubscription ==
  \A o \in created \cap Observers :
    (o \in Effects => isRunning[o]) =>
      \A s \in lastReads[o] : o \in Range(transaction[s]) \/ isScheduled[o]

\* C33: when a scheduled re-run has executed the body of c2 or of ed, every
\* computed of the chain that the body read was up to date with a.
C33_NoGlitch ==
  (lastOp.op = "microtask" /\ lastOp.arg \in {"c2", "ed"}) =>
    \A c \in lastReads[lastOp.arg] \cap Computeds : state[c] = state["a"]

\* C34: while sel has not read b in its last execution, a write to b schedules
\* it only through a registration left in b's pending set, and consumes that
\* registration; sel gets into b's pending set again only by an execution
\* that reads b; so without such a registration no write to b schedules sel.
C34_StaleBounded ==
  [][/\ (/\ lastOp'.op = "write" /\ lastOp'.arg = "b"
         /\ "sel" \in created /\ "b" \notin lastReads["sel"]) =>
          /\ "sel" \notin Range(transaction'["b"])
          /\ "sel" \notin Range(transaction["b"]) =>
               (isScheduled'["sel"] = isScheduled["sel"] /\ queue' = queue)
     /\ ("sel" \notin Range(transaction["b"]) /\ "sel" \in Range(transaction'["b"])) =>
          (lastOp'.arg = "sel" /\ "b" \in lastReads'["sel"])]_vars

\* sel read b, then stopped reading it; the first write to b re-ran it and
\* the second has scheduled nothing.
C34_Witness ==
  /\ lastOp.op = "write" /\ lastOp.arg = "b"
  /\ "b" \in everRead["sel"] /\ "b" \notin lastReads["sel"]
  /\ runCount["sel"] = 3
  /\ queue = <<>>

\* C35: when the scheduled run of the job bad has thrown, the scheduled flag
\* of its throttle is cleared.
C35_SurvivesThrow ==
  (lastOp.op = "microtask" /\ lastOp.arg = "bad" /\ thrown = "Error") =>
    ~isScheduled["bad"]

\* C36: when the microtask queue is empty no recompute is still scheduled,
\* and a queue that is not empty becomes empty.
C36_Termination ==
  /\ [](queue = <<>> => \A o \in Throttled : ~isScheduled[o])
  /\ (queue # <<>>) ~> (queue = <<>>)

\* Every write has been made, the effect has re-run and the queue is empty.
C36_Witness ==
  /\ queue = <<>>
  /\ nWrites = MaxWrites
  /\ lastOp.op = "microtask"
  /\ runCount["ed"] >= 3

\* C37: the queue holds at most one run of each throttle and the scheduled
\* flag is true exactly when it holds one; the flag is also true while the job
\* executes, so the trigger that re calls from its job has queued nothing.
C37_OnePendingRun ==
  /\ \A o \in Throttled :
       /\ Count(queue, o) <= 1
       /\ isScheduled[o] <=> Count(queue, o) = 1
  /\ (lastOp.op = "microtask" /\ lastOp.arg = "re" /\ runCount["re"] = 1) =>
       Count(queue, "re") = 0

\* re has run and called its trigger from inside, while inc is queued.
C37_Witness ==
  /\ lastOp.op = "microtask" /\ lastOp.arg = "re" /\ runCount["re"] = 1
  /\ isScheduled["inc"] /\ queue = <<"inc">>

====
